---- MODULE Spec2Model ----
(***************************************************************************)
(* Story-Refiner-AI: the Streamlit screen of src/Dynamic_UI7.py (the       *)
(* variant with the task breakdown and the sub-task replacement; the       *)
(* refine and update handlers are the same in src/Dynamic_UI3.py and       *)
(* src/test_UI2.py), its text parsers, and the tracker and language-model  *)
(* calls it makes.                                                         *)
(*                                                                         *)
(* Texts are TLA+ strings; a character is a string of length 1.  A string  *)
(* literal holds ASCII only, so Bullet stands for the character U+2022.    *)
(***************************************************************************)
EXTENDS Integers, Sequences, FiniteSets, TLC

(***************************************************************************)
(* Python's str operations, as the source uses them.                       *)
(***************************************************************************)
Bullet == "@"

Whitespace == {" ", "\t", "\n", "\r"}

LineBreaks == {"\n", "\r"}

LowerChars == "abcdefghijklmnopqrstuvwxyz"

UpperChars == "ABCDEFGHIJKLMNOPQRSTUVWXYZ"

Min(a, b) == IF a <= b THEN a ELSE b

CharAt(s, i) == SubSeq(s, i, i)

\* s[a:b] of Python for 0 <= a, b (0-based, b exclusive, clipped to the length)
Slice(s, a, b) == SubSeq(s, a + 1, Min(b, Len(s)))

\* s.lstrip(chars): the first index whose character is not in chars
RECURSIVE FirstNotIn(_, _, _)
FirstNotIn(s, chars, i) ==
    IF i > Len(s) THEN i
    ELSE IF CharAt(s, i) \in chars THEN FirstNotIn(s, chars, i + 1)
    ELSE i

RECURSIVE LastNotIn(_, _, _)
LastNotIn(s, chars, i) ==
    IF i < 1 THEN i
    ELSE IF CharAt(s, i) \in chars THEN LastNotIn(s, chars, i - 1)
    ELSE i

LStripChars(s, chars) == SubSeq(s, FirstNotIn(s, chars, 1), Len(s))

RStripChars(s, chars) == SubSeq(s, 1, LastNotIn(s, chars, Len(s)))

\* s.strip()
Strip(s) == RStripChars(LStripChars(s, Whitespace), Whitespace)

\* sub in s
Contains(s, sub) ==
    \E i \in 1..(Len(s) - Len(sub) + 1) : SubSeq(s, i, i + Len(sub) - 1) = sub

StartsWith(s, pre) == Len(pre) <= Len(s) /\ SubSeq(s, 1, Len(pre)) = pre

EndsWith(s, suf) ==
    Len(suf) <= Len(s) /\ SubSeq(s, Len(s) - Len(suf) + 1, Len(s)) = suf

\* s.find(sub) + 1: the 1-based index of the first occurrence, 0 when absent
Find(s, sub) ==
    IF Contains(s, sub)
    THEN CHOOSE i \in 1..(Len(s) - Len(sub) + 1) :
            /\ SubSeq(s, i, i + Len(sub) - 1) = sub
            /\ \A j \in 1..(i - 1) : SubSeq(s, j, j + Len(sub) - 1) # sub
    ELSE 0

\* the first line break of s at or after start, 0 when there is none
NextBreak(s, start) ==
    LET breaks == {i \in start..Len(s) : CharAt(s, i) \in LineBreaks}
    IN  IF breaks = {} THEN 0 ELSE CHOOSE i \in breaks : \A j \in breaks : i <= j

\* s.splitlines(): "\r\n", "\n" and "\r" end a line; no empty last line
RECURSIVE SplitLinesFrom(_, _)
SplitLinesFrom(s, start) ==
    IF start > Len(s) THEN <<>>
    ELSE LET b == NextBreak(s, start)
         IN  IF b = 0 THEN <<SubSeq(s, start, Len(s))>>
             ELSE <<SubSeq(s, start, b - 1)>>
                  \o SplitLinesFrom(s, IF b < Len(s) /\ SubSeq(s, b, b + 1) = "\r\n"
                                       THEN b + 2 ELSE b + 1)

SplitLines(s) == SplitLinesFrom(s, 1)

\* sep.join(parts)
RECURSIVE Join(_, _)
Join(parts, sep) ==
    IF parts = <<>> THEN ""
    ELSE IF Len(parts) = 1 THEN parts[1]
    ELSE parts[1] \o sep \o Join(Tail(parts), sep)

\* len(s.split()): the number of maximal runs of non-whitespace characters
WordCount(s) ==
    Cardinality({i \in 1..Len(s) :
        /\ CharAt(s, i) \notin Whitespace
        /\ (i = 1 \/ CharAt(s, i - 1) \in Whitespace)})

\* the first whitespace character of s at or after start, Len(s) + 1 when none
NextWhitespace(s, start) ==
    LET spaces == {i \in start..Len(s) : CharAt(s, i) \in Whitespace}
    IN  IF spaces = {} THEN Len(s) + 1 ELSE CHOOSE i \in spaces : \A j \in spaces : i <= j

\* s.split(): the maximal runs of non-whitespace characters, in order
RECURSIVE WordsFrom(_, _)
WordsFrom(s, start) ==
    LET a == FirstNotIn(s, Whitespace, start)
    IN  IF a > Len(s) THEN <<>>
        ELSE LET b == NextWhitespace(s, a)
             IN  <<SubSeq(s, a, b - 1)>> \o WordsFrom(s, b)

Words(s) == WordsFrom(s, 1)

UpperChar(c) ==
    IF Contains(LowerChars, c) /\ Len(c) = 1
    THEN CharAt(UpperChars, Find(LowerChars, c))
    ELSE c

\* s.upper(), half by half
RECURSIVE Upper(_)
Upper(s) ==
    IF Len(s) <= 1 THEN UpperChar(s)
    ELSE LET h == Len(s) \div 2
         IN  Upper(SubSeq(s, 1, h)) \o Upper(SubSeq(s, h + 1, Len(s)))

(***************************************************************************)
(* The marker strings of the screen.                                       *)
(***************************************************************************)
RefinedStoryMarker == "**Refined User Story:**"

CriteriaMarker == "**Acceptance Criteria:**"

SuggestionsMarker == "**Suggestions for Improvement:**"

Separator == "---"

RefinedMarker == "_Refined by AI agent_"

BrokenDownMarker == "_Refined and broken down by AI agent_"

BulletChars == {"-", Bullet}

(***************************************************************************)
(* parse_refined_output: one pass over the lines of the reply, keeping a   *)
(* mode and the two accumulators.                                          *)
(***************************************************************************)
\* a parser that starts inside the summary section
ParseStartInSummary == [mode |-> "summary", summary_lines |-> <<>>, criteria_lines |-> <<>>]

ParseStart == [mode |-> "none", summary_lines |-> <<>>, criteria_lines |-> <<>>]

\* a loop body that keeps the lines as they come, untrimmed
ParseLineUntrimmed(st, line) ==
    IF Contains(line, RefinedStoryMarker) THEN [st EXCEPT !.mode = "summary"]
    ELSE IF Contains(line, CriteriaMarker) THEN [st EXCEPT !.mode = "criteria"]
    ELSE IF Strip(line) = Separator THEN [st EXCEPT !.mode = "none"]
    ELSE IF st.mode = "summary" THEN [st EXCEPT !.summary_lines = Append(@, line)]
    ELSE IF st.mode = "criteria" THEN [st EXCEPT !.criteria_lines = Append(@, line)]
    ELSE st

\* a loop body that drops a separator line and keeps the mode
ParseLineKeepsMode(st, line) ==
    IF Contains(line, RefinedStoryMarker) THEN [st EXCEPT !.mode = "summary"]
    ELSE IF Contains(line, CriteriaMarker) THEN [st EXCEPT !.mode = "criteria"]
    ELSE IF Strip(line) = Separator THEN st
    ELSE IF st.mode = "summary"
    THEN [st EXCEPT !.summary_lines = Append(@, Strip(line))]
    ELSE IF st.mode = "criteria"
    THEN [st EXCEPT !.criteria_lines = Append(@, Strip(line))]
    ELSE st

\* the body of the for loop, for one line
ParseLine(st, line) ==
    IF Contains(line, RefinedStoryMarker) THEN [st EXCEPT !.mode = "summary"]
    ELSE IF Contains(line, CriteriaMarker) THEN [st EXCEPT !.mode = "criteria"]
    ELSE IF Strip(line) = Separator THEN [st EXCEPT !.mode = "none"]
    ELSE IF st.mode = "summary"
    THEN [st EXCEPT !.summary_lines = Append(@, Strip(line))]
    ELSE IF st.mode = "criteria"
    THEN [st EXCEPT !.criteria_lines = Append(@, Strip(line))]
    ELSE st

RECURSIVE ParseLines(_, _)
ParseLines(st, lines) ==
    IF lines = <<>> THEN st ELSE ParseLines(ParseLine(st, Head(lines)), Tail(lines))

parse_refined_output(output) ==
    LET st == ParseLines(ParseStart, SplitLines(output))
    IN  [summary  |-> Strip(Join(st.summary_lines, " ")),
         criteria |-> Strip(Join(st.criteria_lines, "\n"))]

(***************************************************************************)
(* parse_task_lines: drop the headings, keep the cleaned task lines.       *)
(***************************************************************************)
CleanTaskLine(line) == Strip(LStripChars(Strip(line), BulletChars))

\* a loop body whose capitals test reads "fewer than 4 words"
ParseTaskLineFewerThanFour(parsed, line) ==
    LET clean == CleanTaskLine(line)
    IN  IF clean = "" THEN parsed
        ELSE IF EndsWith(clean, ":") THEN parsed
        ELSE IF StartsWith(clean, "**") /\ EndsWith(clean, "**") THEN parsed
        ELSE IF WordCount(clean) < 4 /\ clean = Upper(clean) THEN parsed
        ELSE Append(parsed, clean)

\* the body of the for loop, for one line
ParseTaskLine(parsed, line) ==
    LET clean == CleanTaskLine(line)
    IN  IF clean = "" THEN parsed
        ELSE IF EndsWith(clean, ":") THEN parsed
        ELSE IF StartsWith(clean, "**") /\ EndsWith(clean, "**") THEN parsed
        ELSE IF WordCount(clean) <= 4 /\ clean = Upper(clean) THEN parsed
        ELSE Append(parsed, clean)

RECURSIVE ParseTaskLoop(_, _)
ParseTaskLoop(parsed, lines) ==
    IF lines = <<>> THEN parsed
    ELSE ParseTaskLoop(ParseTaskLine(parsed, Head(lines)), Tail(lines))

parse_task_lines(task_lines) == ParseTaskLoop(<<>>, task_lines)

(***************************************************************************)
(* The tracker, the language model and the session.                        *)
(*                                                                         *)
(* The project holds two issues a user can select and refine; PRJ-1 has    *)
(* the sub-tasks SUB-1 and SUB-2 (the numbers 1 and 2).  Every call to the *)
(* tracker or to the language model may fail; which calls fail is an input *)
(* of the run.                                                             *)
(***************************************************************************)
IssueKeys == <<"PRJ-1", "PRJ-2">>

IssueType(k) == IF k = "PRJ-1" THEN [name |-> "Story", subtask |-> FALSE]
                ELSE IF k = "PRJ-2" THEN [name |-> "Bug", subtask |-> FALSE]
                ELSE [name |-> "Sub-task", subtask |-> TRUE]

\* the issue types of a project: with a sub-task type, and without one
ProjectTypes == [with    |-> <<[name |-> "Story", subtask |-> FALSE],
                               [name |-> "Sub-task", subtask |-> TRUE]>>,
                 without |-> <<[name |-> "Story", subtask |-> FALSE],
                               [name |-> "Bug", subtask |-> FALSE]>>]

valid_parent_types == {"Story", "Task", "Bug"}

\* the replies of the model to the refinement prompt
RefineReplies ==
    {"---\n**Refined User Story:**  \nAs a user I can log in\n\n**Acceptance Criteria:**  \n- c1\n- c2\n---",
     "Sorry, I cannot help."}

\* the replies of the model to the breakdown prompt
BreakdownReplies ==
    {"- Task A\n- Task B",
     "TODO:"}

\* the largest sub-task key the tracker hands out
MaxSubtaskKey == 4

\* the title field of the tracker holds 255 characters
TitleLimit == 255

VARIABLES
    connected,                  \* st.session_state["connected"]
    last_refined_summary,       \* st.session_state[...]; "" also stands for absent
    last_refined_criteria,
    last_selected_issue_key,
    last_task_breakdown,
    last_task_breakdown_lines,  \* <<>> also stands for absent
    selected,                   \* the key of the issue chosen in the selectbox
    show_only_unrefined,        \* the checkbox above the list
    confirm_delete,             \* the confirmation checkbox
    tracker,                    \* key -> [summary, description, subtasks]
    next_key,                   \* the next sub-task key the tracker hands out
    calls,                      \* the external calls of the last script run, in order
    errors,                     \* the messages st.error / st.warning showed in it
    unhandled,                  \* an exception left the last script run uncaught
    refined_for,                \* the issue selected when the stored result was made
    tasks_for,                  \* the issue selected when the stored breakdown was made
    reply_text,                 \* a reply handed to parse_refined_output on its own
    reply_shape,                \* how that reply was put together
    reply_parsed,               \* what parse_refined_output returned for it
    raw_task_lines,             \* lines handed to parse_task_lines on their own
    tasks_parsed,               \* what parse_task_lines returned for them
    call_args,                  \* the arguments of another function called on its own
    call_result                 \* what it returned

session == <<connected, last_refined_summary, last_refined_criteria,
             last_selected_issue_key, last_task_breakdown, last_task_breakdown_lines>>

widgets == <<selected, show_only_unrefined, confirm_delete>>

refined_vars == <<last_refined_summary, last_refined_criteria,
                  last_selected_issue_key, refined_for>>

task_vars == <<last_task_breakdown, last_task_breakdown_lines, tasks_for>>

screen_vars == <<session, widgets, tracker, next_key, calls, errors, unhandled,
                 refined_for, tasks_for>>

parser_vars == <<reply_text, reply_shape, reply_parsed>>

task_parser_vars == <<raw_task_lines, tasks_parsed>>

call_vars == <<call_args, call_result>>

\* what the screen leaves alone
parsers == <<parser_vars, task_parser_vars, call_vars>>

vars == <<screen_vars, parser_vars, task_parser_vars, call_vars>>

Call(by, op, key, text, ok) ==
    [by |-> by, op |-> op, key |-> key, text |-> text, ok |-> ok]

Message(msg, key) == [msg |-> msg, key |-> key]

Range(f) == {f[i] : i \in DOMAIN f}

(***************************************************************************)
(* The issue list of a script run.                                         *)
(***************************************************************************)
refined_flag(k) == Contains(tracker[k].description, RefinedMarker)

\* the loop that builds filtered_issues
Listed(k) ==
    /\ IssueType(k).name \in valid_parent_types
    /\ ~(show_only_unrefined /\ refined_flag(k))

filtered_issues == SelectSeq(IssueKeys, Listed)

\* the try block at the top of every connected run: JIRA(...) and
\* search_issues, one entry for the two (they share the except clause)
LoadCalls(ok) == <<Call("main", "search_issues", "", "", ok)>>

\* what a run whose issue list could not be loaded shows: the error, then the
\* warning of the empty list
LoadFailed == <<Message("Failed to load issues", ""), Message("No issues found", "")>>

\* a run gets as far as the buttons: connected, issues loaded, an issue selected
Ready == connected /\ selected \in Range(filtered_issues)

InitScreen ==
    /\ connected = FALSE
    /\ last_refined_summary = ""
    /\ last_refined_criteria = ""
    /\ last_selected_issue_key = ""
    /\ last_task_breakdown = ""
    /\ last_task_breakdown_lines = <<>>
    /\ selected = "PRJ-1"
    /\ show_only_unrefined = FALSE
    /\ confirm_delete = FALSE
    /\ tracker = [k \in Range(IssueKeys) |->
                    IF k = "PRJ-1"
                    THEN [summary |-> "login", description |-> "", subtasks |-> <<"SUB-1", "SUB-2">>]
                    ELSE [summary |-> "crash",
                          description |-> "Fix it\n\n" \o RefinedMarker,
                          subtasks |-> <<>>]]
    /\ next_key = 3
    /\ calls = <<>>
    /\ errors = <<>>
    /\ unhandled = FALSE
    /\ refined_for = ""
    /\ tasks_for = ""

(***************************************************************************)
(* Connecting and disconnecting.                                           *)
(***************************************************************************)
\* the connection form, submitted with every field filled or not
Connect ==
    /\ ~connected
    /\ \E filled, ok, load \in BOOLEAN :
       IF ~filled
       THEN /\ errors' = <<Message("Please fill in all fields to connect.", "")>>
            /\ calls' = <<>>
            /\ UNCHANGED connected
       ELSE IF ~ok
       THEN /\ errors' = <<Message("Failed to connect to Jira", "")>>
            /\ calls' = <<Call("connection_form", "JIRA", "", "", FALSE)>>
            /\ connected' = FALSE
       ELSE /\ connected' = TRUE
            /\ calls' = <<Call("connection_form", "JIRA", "", "", TRUE)>> \o LoadCalls(load)
            /\ errors' = IF load THEN <<>> ELSE LoadFailed
    /\ unhandled' = FALSE
    /\ UNCHANGED <<refined_vars, task_vars, widgets, tracker, next_key, parsers>>

\* clear_connection_state, then st.rerun()
Disconnect ==
    /\ connected
    /\ connected' = FALSE
    /\ last_refined_summary' = ""
    /\ last_refined_criteria' = ""
    /\ last_selected_issue_key' = ""
    /\ last_task_breakdown' = ""
    /\ last_task_breakdown_lines' = <<>>
    /\ refined_for' = ""
    /\ tasks_for' = ""
    /\ calls' = <<>>
    /\ errors' = <<>>
    /\ unhandled' = FALSE
    /\ UNCHANGED <<widgets, tracker, next_key, parsers>>

\* any interaction of a connected session whose issue list cannot be loaded
LoadFails ==
    /\ connected
    /\ calls' = LoadCalls(FALSE)
    /\ errors' = LoadFailed
    /\ unhandled' = FALSE
    /\ UNCHANGED <<session, refined_for, tasks_for, widgets, tracker, next_key, parsers>>

(***************************************************************************)
(* The widgets above the buttons.                                          *)
(***************************************************************************)
NoHandler ==
    /\ calls' = LoadCalls(TRUE)
    /\ errors' = <<>>
    /\ unhandled' = FALSE
    /\ UNCHANGED <<session, refined_for, tasks_for, tracker, next_key, parsers>>

SelectIssue(k) ==
    /\ connected
    /\ k \in Range(filtered_issues)
    /\ k # selected
    /\ selected' = k
    /\ UNCHANGED <<show_only_unrefined, confirm_delete>>
    /\ NoHandler

ToggleShowOnlyUnrefined ==
    /\ connected
    /\ show_only_unrefined' = ~show_only_unrefined
    /\ UNCHANGED <<selected, confirm_delete>>
    /\ NoHandler

(***************************************************************************)
(* Refine Story and Update Jira.                                           *)
(***************************************************************************)
\* a split at the last occurrence of the marker
split_suggestions_at_last(refined_criteria) ==
    LET starts == {i \in 1..Len(refined_criteria) :
                      /\ i + Len(SuggestionsMarker) - 1 <= Len(refined_criteria)
                      /\ SubSeq(refined_criteria, i, i + Len(SuggestionsMarker) - 1)
                            = SuggestionsMarker}
        p      == IF starts = {} THEN 0 ELSE CHOOSE i \in starts : \A j \in starts : j <= i
    IN  IF p = 0
        THEN [present |-> FALSE, criteria_part |-> refined_criteria, suggestions_part |-> ""]
        ELSE [present |-> TRUE,
              criteria_part |-> SubSeq(refined_criteria, 1, p - 1),
              suggestions_part |-> SubSeq(refined_criteria, p + Len(SuggestionsMarker),
                                          Len(refined_criteria))]

\* the split refine_form makes before it shows the criteria:
\* refined_criteria.split("**Suggestions for Improvement:**", 1) when the
\* marker is in the block, the whole block otherwise
split_suggestions(refined_criteria) ==
    LET p == Find(refined_criteria, SuggestionsMarker)
    IN  IF p = 0
        THEN [present |-> FALSE, criteria_part |-> refined_criteria, suggestions_part |-> ""]
        ELSE [present |-> TRUE,
              criteria_part |-> SubSeq(refined_criteria, 1, p - 1),
              suggestions_part |-> SubSeq(refined_criteria, p + Len(SuggestionsMarker),
                                          Len(refined_criteria))]

\* a button condition that does not compare the stored key
ResultPresentForAnyIssue == last_refined_summary # ""

\* the button condition of "Update Jira" and of "Break Down Into Tasks"
ResultPresent ==
    /\ last_refined_summary # ""
    /\ last_selected_issue_key = selected

\* parse_refined_output(refined) for every text refine_form can hold, worked out once
ParsedReply == [refined \in RefineReplies \cup {""} |-> parse_refined_output(refined)]

\* a refine_form that stores nothing when the call raised
RefineKeepsResultOnFailure(reply, failed) ==
    /\ IF failed
       THEN UNCHANGED refined_vars
       ELSE /\ last_refined_summary' = ParsedReply[reply].summary
            /\ last_refined_criteria' = ParsedReply[reply].criteria
            /\ last_selected_issue_key' = selected
            /\ refined_for' = selected
    /\ calls' = LoadCalls(TRUE) \o <<Call("refine_form", "chain.run", selected, "", ~failed)>>
    /\ errors' = IF failed THEN <<Message("OpenAI Error", "")>> ELSE <<>>
    /\ unhandled' = FALSE
    /\ UNCHANGED <<connected, task_vars, widgets, tracker, next_key, parsers>>

\* refine_form: reply is the text chain.run returned, failed that it raised
RefineWith(reply, failed) ==
    /\ LET refined == IF failed THEN "" ELSE reply
           parsed  == ParsedReply[refined]
       IN  /\ last_refined_summary' = parsed.summary
           /\ last_refined_criteria' = parsed.criteria
           /\ last_selected_issue_key' = selected
           /\ refined_for' = selected
    /\ calls' = LoadCalls(TRUE) \o <<Call("refine_form", "chain.run", selected, "", ~failed)>>
    /\ errors' = IF failed THEN <<Message("OpenAI Error", "")>> ELSE <<>>
    /\ unhandled' = FALSE
    /\ UNCHANGED <<connected, task_vars, widgets, tracker, next_key, parsers>>

RefineStory ==
    /\ Ready
    /\ \/ \E reply \in RefineReplies : RefineWith(reply, FALSE)
       \/ RefineWith("", TRUE)

\* a description whose criteria are joined by line breaks alone
refined_description_one_bullet(summary, criteria) ==
    RefinedStoryMarker \o "  " \o summary \o "\n\n"
    \o CriteriaMarker \o "  \n"
    \o "- " \o Join(SplitLines(criteria), "\n")
    \o "\n\n" \o RefinedMarker

\* the description "Update Jira" writes
refined_description(summary, criteria) ==
    RefinedStoryMarker \o "  " \o summary \o "\n\n"
    \o CriteriaMarker \o "  \n"
    \o "- " \o Join(SplitLines(criteria), "\n- ")
    \o "\n\n" \o RefinedMarker

\* a summary field that takes the stored summary whole
written_title_whole(summary) == summary

\* the summary field of an update: the stored summary, cut to the title limit
written_title(summary) == Slice(summary, 0, TitleLimit)

\* jira.issue(key).update(summary=..., description=...): read, then write
UpdateIssue(by, summary, description, read_ok, write_ok) ==
    /\ calls' = LoadCalls(TRUE)
                \o <<Call(by, "issue", selected, "", read_ok)>>
                \o (IF read_ok THEN <<Call(by, "update", selected, "", write_ok)>> ELSE <<>>)
    /\ IF read_ok /\ write_ok
       THEN /\ tracker' = [tracker EXCEPT ![selected].summary = written_title(summary),
                                          ![selected].description = description]
            /\ errors' = <<>>
       ELSE /\ errors' = <<Message("Failed to update Jira", "")>>
            /\ UNCHANGED tracker
    /\ unhandled' = FALSE
    /\ UNCHANGED <<session, refined_for, tasks_for, widgets, next_key, parsers>>

UpdateJira ==
    /\ Ready
    /\ ResultPresent
    /\ \E read_ok, write_ok \in BOOLEAN :
        UpdateIssue("update_jira_btn", last_refined_summary,
                    refined_description(last_refined_summary, last_refined_criteria),
                    read_ok, write_ok)

(***************************************************************************)
(* Break Down Into Tasks.                                                  *)
(***************************************************************************)
NonBlank(line) == Strip(line) # ""

\* task_lines: the non-blank lines of the reply, bullets and blanks stripped
task_lines_of(tasks_output) ==
    LET kept == SelectSeq(SplitLines(Strip(tasks_output)), NonBlank)
    IN  [i \in 1..Len(kept) |-> Strip(LStripChars(kept[i], BulletChars))]

task_breakdown_text(tasks) ==
    Join([i \in 1..Len(tasks) |-> "- [ ] " \o tasks[i]], "\n")

\* filtered_task_lines for every reply to the breakdown prompt, worked out once
FilteredTaskLines ==
    [tasks_output \in BreakdownReplies |-> parse_task_lines(task_lines_of(tasks_output))]

\* the handler; chain.run is called outside any try
BreakDownWith(reply, failed) ==
    /\ calls' = LoadCalls(TRUE)
                \o <<Call("break_down_btn", "chain.run", selected, "", ~failed)>>
    /\ IF failed
       THEN /\ unhandled' = TRUE
            /\ UNCHANGED task_vars
       ELSE LET filtered_task_lines == FilteredTaskLines[reply]
            IN  /\ last_task_breakdown' = task_breakdown_text(filtered_task_lines)
                /\ last_task_breakdown_lines' = filtered_task_lines
                /\ tasks_for' = selected
                /\ unhandled' = FALSE
    /\ errors' = <<>>
    /\ UNCHANGED <<connected, refined_vars, widgets, tracker, next_key, parsers>>

BreakDown ==
    /\ Ready
    /\ ResultPresent
    /\ \/ \E reply \in BreakdownReplies : BreakDownWith(reply, FALSE)
       \/ BreakDownWith("", TRUE)

(***************************************************************************)
(* Create Jira Sub-tasks (replace existing).                               *)
(***************************************************************************)
SubtaskKey(n) == "SUB-" \o ToString(n)

\* the button and its confirmation box are shown
SubtasksOffered == ResultPresent /\ last_task_breakdown_lines # <<>>

ToggleConfirmDelete ==
    /\ Ready
    /\ SubtasksOffered
    /\ confirm_delete' = ~confirm_delete
    /\ UNCHANGED <<selected, show_only_unrefined>>
    /\ NoHandler

\* get_subtask_issue_type: the name of the first sub-task type, or an exception;
\* the entry of its call carries the name it found, "" when it found none
get_subtask_issue_type(types, project_ok) ==
    LET found == {i \in DOMAIN types : types[i].subtask}
        name  == IF project_ok /\ found # {}
                 THEN types[CHOOSE i \in found : \A j \in found : i <= j].name
                 ELSE ""
    IN  [calls  |-> <<Call("get_subtask_issue_type", "project", "", name, project_ok)>>,
         raised |-> ~project_ok \/ found = {},
         name   |-> name]

\* a loop without the try: the first failing delete ends it
RECURSIVE DeleteLoopEndsAtFailure(_, _, _)
DeleteLoopEndsAtFailure(keys, i, delete_fails) ==
    IF i > Len(keys) THEN [calls |-> <<>>, errors |-> <<>>, left |-> <<>>]
    ELSE LET ok   == keys[i] \notin delete_fails
             rest == IF ok THEN DeleteLoopEndsAtFailure(keys, i + 1, delete_fails)
                     ELSE [calls |-> <<>>, errors |-> <<>>,
                           left |-> SubSeq(keys, i + 1, Len(keys))]
         IN  [calls  |-> <<Call("delete_existing_subtasks", "delete_issue", keys[i], "", ok)>>
                         \o rest.calls,
              errors |-> (IF ok THEN <<>>
                          ELSE <<Message("Failed to delete sub-task", keys[i])>>)
                         \o rest.errors,
              left   |-> (IF ok THEN <<>> ELSE <<keys[i]>>) \o rest.left]

\* the for loop of delete_existing_subtasks over the keys from position i on
RECURSIVE DeleteLoop(_, _, _)
DeleteLoop(keys, i, delete_fails) ==
    IF i > Len(keys) THEN [calls |-> <<>>, errors |-> <<>>, left |-> <<>>]
    ELSE LET ok   == keys[i] \notin delete_fails
             rest == DeleteLoop(keys, i + 1, delete_fails)
         IN  [calls  |-> <<Call("delete_existing_subtasks", "delete_issue", keys[i], "", ok)>>
                         \o rest.calls,
              errors |-> (IF ok THEN <<>>
                          ELSE <<Message("Failed to delete sub-task", keys[i])>>)
                         \o rest.errors,
              left   |-> (IF ok THEN <<>> ELSE <<keys[i]>>) \o rest.left]

\* delete_existing_subtasks: read the parent, then delete each of its sub-tasks
delete_existing_subtasks(parent, read_ok, delete_fails) ==
    LET keys == IF read_ok THEN tracker[parent].subtasks ELSE <<>>
        loop == DeleteLoop(keys, 1, delete_fails)
    IN  [calls  |-> <<Call("delete_existing_subtasks", "issue", parent, "", read_ok)>>
                    \o loop.calls,
         raised |-> ~read_ok,
         keys   |-> keys,
         errors |-> loop.errors,
         left   |-> IF read_ok THEN loop.left ELSE tracker[parent].subtasks]

\* a create_jira_subtask that does not look at the type of the parent
create_jira_subtask_any_parent(parent, summary, read_ok, create_ok) ==
    [calls  |-> <<Call("create_jira_subtask", "issue", parent, summary, read_ok)>>
                \o (IF read_ok
                    THEN <<Call("create_jira_subtask", "create_issue", parent,
                                Slice(summary, 0, TitleLimit), create_ok)>>
                    ELSE <<>>),
     raised |-> ~read_ok \/ ~create_ok]

\* create_jira_subtask: read the parent, refuse a sub-task parent, create
create_jira_subtask(parent, summary, read_ok, create_ok) ==
    LET refused == IssueType(parent).subtask
    IN  [calls  |-> <<Call("create_jira_subtask", "issue", parent, summary, read_ok)>>
                    \o (IF read_ok /\ ~refused
                        THEN <<Call("create_jira_subtask", "create_issue", parent,
                                    Slice(summary, 0, TitleLimit), create_ok)>>
                        ELSE <<>>),
         raised |-> ~read_ok \/ refused \/ ~create_ok]

\* a loop that carries on with the next task line after a failed create
RECURSIVE CreateLoopCarriesOn(_, _, _, _, _)
CreateLoopCarriesOn(parent, tasks, i, fail_at, fail_how) ==
    IF i > Len(tasks) THEN [calls |-> <<>>, created |-> 0, raised |-> FALSE]
    ELSE LET one == create_jira_subtask(parent, tasks[i],
                        ~(fail_at = i /\ fail_how = "issue"),
                        ~(fail_at = i /\ fail_how = "create_issue"))
             rest == CreateLoopCarriesOn(parent, tasks, i + 1, fail_at, fail_how)
         IN  [calls   |-> one.calls \o rest.calls,
              created |-> (IF one.raised THEN 0 ELSE 1) + rest.created,
              raised  |-> one.raised \/ rest.raised]

\* the for loop over the stored task lines, from position i on; the call for
\* position fail_at raises, in its read or in its create
RECURSIVE CreateLoop(_, _, _, _, _)
CreateLoop(parent, tasks, i, fail_at, fail_how) ==
    IF i > Len(tasks) THEN [calls |-> <<>>, created |-> 0, raised |-> FALSE]
    ELSE LET one == create_jira_subtask(parent, tasks[i],
                        ~(fail_at = i /\ fail_how = "issue"),
                        ~(fail_at = i /\ fail_how = "create_issue"))
             rest == CreateLoop(parent, tasks, i + 1, fail_at, fail_how)
         IN  IF one.raised THEN [calls |-> one.calls, created |-> 0, raised |-> TRUE]
             ELSE [calls   |-> one.calls \o rest.calls,
                   created |-> 1 + rest.created,
                   raised  |-> rest.raised]

\* a try block that deletes the sub-tasks before it looks up the type
ReplaceSubtasksDeleteFirst(parent, tasks, types, project_ok, read_ok, delete_fails, fail_at, fail_how) ==
    LET type    == get_subtask_issue_type(types, project_ok)
        deleted == delete_existing_subtasks(parent, read_ok, delete_fails)
        created == CreateLoop(parent, tasks, 1, fail_at, fail_how)
        new     == [i \in 1..created.created |-> SubtaskKey(next_key + i - 1)]
    IN  IF deleted.raised
        THEN [calls |-> deleted.calls, errors |-> <<>>, raised |-> TRUE, keys |-> <<>>,
              subtasks |-> tracker[parent].subtasks, created |-> 0]
        ELSE IF type.raised
        THEN [calls |-> deleted.calls \o type.calls, errors |-> deleted.errors,
              raised |-> TRUE, keys |-> deleted.keys, subtasks |-> deleted.left,
              created |-> 0]
        ELSE [calls |-> deleted.calls \o type.calls \o created.calls,
              errors |-> deleted.errors, raised |-> created.raised,
              keys |-> deleted.keys, subtasks |-> deleted.left \o new,
              created |-> created.created]

\* the try block of the handler
ReplaceSubtasks(parent, tasks, types, project_ok, read_ok, delete_fails, fail_at, fail_how) ==
    LET type    == get_subtask_issue_type(types, project_ok)
        deleted == delete_existing_subtasks(parent, read_ok, delete_fails)
        created == CreateLoop(parent, tasks, 1, fail_at, fail_how)
        new     == [i \in 1..created.created |-> SubtaskKey(next_key + i - 1)]
    IN  IF type.raised
        THEN [calls |-> type.calls, errors |-> <<>>, raised |-> TRUE, keys |-> <<>>,
              subtasks |-> tracker[parent].subtasks, created |-> 0]
        ELSE IF deleted.raised
        THEN [calls |-> type.calls \o deleted.calls, errors |-> <<>>, raised |-> TRUE,
              keys |-> <<>>, subtasks |-> tracker[parent].subtasks, created |-> 0]
        ELSE [calls |-> type.calls \o deleted.calls \o created.calls,
              errors |-> deleted.errors, raised |-> created.raised,
              keys |-> deleted.keys, subtasks |-> deleted.left \o new,
              created |-> created.created]

FailHow == {"issue", "create_issue"}

\* the handler with the box checked: which calls fail is the input
ReplaceWith(types, project_ok, read_ok, delete_fails, fail_at, fail_how) ==
    LET run == ReplaceSubtasks(selected, last_task_breakdown_lines, types,
                   project_ok, read_ok, delete_fails, fail_at, fail_how)
    IN  /\ calls' = LoadCalls(TRUE) \o run.calls
        /\ errors' = run.errors
                     \o (IF run.raised
                         THEN <<Message("Failed to create sub-tasks", "")>>
                         ELSE <<>>)
        /\ tracker' = [tracker EXCEPT ![selected].subtasks = run.subtasks]
        /\ next_key' = next_key + run.created

\* a handler that takes the box as checked
ConfirmedAlways == TRUE

\* the test of the handler on the confirmation box
Confirmed == confirm_delete

CreateSubtasks ==
    /\ Ready
    /\ SubtasksOffered
    /\ IF Confirmed
       THEN /\ next_key + Len(last_task_breakdown_lines) - 1 <= MaxSubtaskKey
            /\ \/ \E types \in Range(ProjectTypes), project_ok \in BOOLEAN :
                    /\ ~(project_ok /\ types = ProjectTypes.with)
                    /\ ReplaceWith(types, project_ok, TRUE, {}, 0, "issue")
               \/ ReplaceWith(ProjectTypes.with, TRUE, FALSE, {}, 0, "issue")
               \/ \E delete_fails \in SUBSET Range(tracker[selected].subtasks) :
                    \/ ReplaceWith(ProjectTypes.with, TRUE, TRUE, delete_fails, 0, "issue")
                    \/ \E fail_at \in 1..Len(last_task_breakdown_lines), fail_how \in FailHow :
                         ReplaceWith(ProjectTypes.with, TRUE, TRUE, delete_fails,
                                     fail_at, fail_how)
       ELSE /\ calls' = LoadCalls(TRUE)
            /\ errors' = <<Message("Please check the confirmation box before replacing sub-tasks!", "")>>
            /\ UNCHANGED <<tracker, next_key>>
    /\ unhandled' = FALSE
    /\ UNCHANGED <<session, refined_for, tasks_for, widgets, parsers>>

(***************************************************************************)
(* Update Jira with Tasks.                                                 *)
(***************************************************************************)
refined_description_with_tasks(summary, criteria, breakdown) ==
    RefinedStoryMarker \o "  " \o summary \o "\n\n"
    \o CriteriaMarker \o "  \n"
    \o "- " \o Join(SplitLines(criteria), "\n- ")
    \o "\n\n**Implementation Tasks:**\n"
    \o breakdown
    \o "\n\n" \o BrokenDownMarker

UpdateJiraWithTasks ==
    /\ Ready
    /\ ResultPresent
    /\ last_task_breakdown # ""
    /\ \E read_ok, write_ok \in BOOLEAN :
        UpdateIssue("update_jira_tasks_btn", last_refined_summary,
                    refined_description_with_tasks(last_refined_summary,
                        last_refined_criteria, last_task_breakdown),
                    read_ok, write_ok)

(***************************************************************************)
(* The parsers on their own: a reply, or a list of lines, drawn from a     *)
(* bounded set and handed to the parser once.                              *)
(***************************************************************************)
\* the longest reply, in lines, that is put together freely
MaxReplyLines == 4

\* the most lines between two markers of a reply in the prompt's format
MaxEnclosed == 2

\* the longest list of task lines
MaxTaskLines == 3

SeqsUpTo(S, n) == UNION {[1..k -> S] : k \in 0..n}

ReplyLineChoices ==
    {"", "---", " --- ", "**Refined User Story:**  ", "x **Acceptance Criteria:** y",
     "As a  user", " - c1 ", "**Suggestions for Improvement:**",
     "**Acceptance Criteria:** **Refined User Story:**"}

\* lines that are neither a marker line nor a separator
ContentLineChoices == {"", "As a  user", " I want x ", "- c1 "}

NotEnclosed == [well_formed |-> FALSE, summary_lines |-> <<>>, criteria_lines |-> <<>>]

NotParsed == [done |-> FALSE, summary |-> "", criteria |-> ""]

NoTasksParsed == [done |-> FALSE, tasks |-> <<>>]

\* a reply in the format the prompt asks for
FormattedReply(opening, summary_lines, criteria_lines) ==
    Join(opening \o <<"**Refined User Story:**  ">> \o summary_lines
         \o <<"**Acceptance Criteria:**  ">> \o criteria_lines \o <<"---">>, "\n")

InitParser ==
    /\ reply_parsed = NotParsed
    /\ \/ /\ reply_shape = NotEnclosed
          /\ \E lines \in SeqsUpTo(ReplyLineChoices, MaxReplyLines) :
                reply_text = Join(lines, "\n")
       \/ \E opening \in {<<>>, <<"---">>},
             summary_lines, criteria_lines \in SeqsUpTo(ContentLineChoices, MaxEnclosed) :
            /\ reply_shape = [well_formed |-> TRUE, summary_lines |-> summary_lines,
                           criteria_lines |-> criteria_lines]
            /\ reply_text = FormattedReply(opening, summary_lines, criteria_lines)

ParserIdle == reply_text = "" /\ reply_shape = NotEnclosed /\ reply_parsed = NotParsed

ParseReply ==
    /\ ~reply_parsed.done
    /\ LET result == parse_refined_output(reply_text)
       IN  reply_parsed' = [done |-> TRUE, summary |-> result.summary,
                      criteria |-> result.criteria]
    /\ UNCHANGED <<reply_text, reply_shape, screen_vars, task_parser_vars, call_vars>>

TaskLineChoices ==
    {"", "**User Management:**", "- Create signup form", "TOTALS:", "DONE",
     "  -@ Add x  ", "- - y", "ONE TWO THREE FOUR", "ONE TWO THREE FOUR FIVE",
     "**", "**bold** start", "Fix: it"}

TaskExample ==
    <<"**User Management:**", "- Create signup form", "TOTALS:", "- Add password reset",
      "DONE">>

InitTaskParser ==
    /\ tasks_parsed = NoTasksParsed
    /\ raw_task_lines \in SeqsUpTo(TaskLineChoices, MaxTaskLines) \cup {TaskExample}

TaskParserIdle == raw_task_lines = <<>> /\ tasks_parsed = NoTasksParsed

ParseTasks ==
    /\ ~tasks_parsed.done
    /\ tasks_parsed' = [done |-> TRUE, tasks |-> parse_task_lines(raw_task_lines)]
    /\ UNCHANGED <<raw_task_lines, screen_vars, parser_vars, call_vars>>

(***************************************************************************)
(* The other functions on their own: call_args holds the arguments, drawn  *)
(* from a bounded set, and call_result what the function returned.         *)
(***************************************************************************)
NoCall == call_args = [fn |-> "none"] /\ call_result = [done |-> FALSE]

\* the most criteria lines, and the most task lines, of a written description
MaxCriteria == 3

MaxTasks == 2

RECURSIVE Repeat(_, _)
Repeat(s, n) == IF n = 0 THEN "" ELSE s \o Repeat(s, n - 1)

\* summaries around the title limit, and a short one
SummaryLengths == {0, 9, 254, 255, 256, 300}

SummaryOfLength(n) == Slice(Repeat("As a user ", 30), 0, n)

CriterionChoices == {"", "- c1", "c  2", "**Suggestions for Improvement:**"}

TaskChoices == {"Task A", "Add  x"}

\* criteria as parse_refined_output leaves them: no blank line at either end
Stripped(lines) ==
    IF lines = <<>> THEN TRUE ELSE lines[1] # "" /\ lines[Len(lines)] # ""

InitWriteFields ==
    /\ call_result = [done |-> FALSE]
    /\ \E n \in SummaryLengths,
          criteria_lines \in SeqsUpTo(CriterionChoices, MaxCriteria),
          tasks \in SeqsUpTo(TaskChoices, MaxTasks) :
            /\ Stripped(criteria_lines)
            /\ call_args = [fn |-> "update", summary |-> SummaryOfLength(n),
                            criteria_lines |-> criteria_lines, tasks |-> tasks]

\* the fields the two update buttons hand to issue.update
WriteFields ==
    /\ call_args.fn = "update"
    /\ ~call_result.done
    /\ LET criteria == Join(call_args.criteria_lines, "\n")
       IN  call_result' =
             [done |-> TRUE,
              summary |-> written_title(call_args.summary),
              description |-> refined_description(call_args.summary, criteria),
              description_with_tasks |->
                  refined_description_with_tasks(call_args.summary, criteria,
                      task_breakdown_text(call_args.tasks))]
    /\ UNCHANGED <<call_args, screen_vars, parser_vars, task_parser_vars>>

\* the most lines of a criteria block that is split
MaxBlockLines == 3

BlockLineChoices ==
    {"- c1", "- s1", "**Suggestions for Improvement:**",
     "x **Suggestions for Improvement:** y",
     "**Suggestions for Improvement:**Suggestions for Improvement:**"}

InitSplitCall ==
    /\ call_result = [done |-> FALSE]
    /\ \E lines \in SeqsUpTo(BlockLineChoices, MaxBlockLines) :
            call_args = [fn |-> "split", refined_criteria |-> Join(lines, "\n")]

\* the split, and the split of the criteria part it gave
SplitCall ==
    /\ call_args.fn = "split"
    /\ ~call_result.done
    /\ LET once == split_suggestions(call_args.refined_criteria)
       IN  call_result' = [done |-> TRUE, once |-> once,
                           twice |-> split_suggestions(once.criteria_part)]
    /\ UNCHANGED <<call_args, screen_vars, parser_vars, task_parser_vars>>

\* the parents create_jira_subtask is called with: the two issues, and two
\* sub-tasks
ParentChoices == {"PRJ-1", "PRJ-2", "SUB-1", "SUB-2"}

InitCreateCall ==
    /\ call_result = [done |-> FALSE]
    /\ \E parent \in ParentChoices, n \in SummaryLengths, read_ok, create_ok \in BOOLEAN :
            call_args = [fn |-> "create_jira_subtask", parent |-> parent,
                         summary |-> SummaryOfLength(n),
                         read_ok |-> read_ok, create_ok |-> create_ok]

CreateCall ==
    /\ call_args.fn = "create_jira_subtask"
    /\ ~call_result.done
    /\ LET one == create_jira_subtask(call_args.parent, call_args.summary,
                                      call_args.read_ok, call_args.create_ok)
       IN  call_result' = [done |-> TRUE, calls |-> one.calls, raised |-> one.raised]
    /\ UNCHANGED <<call_args, screen_vars, parser_vars, task_parser_vars>>

(***************************************************************************)
(* The specifications: the screen, and each function on its own.           *)
(***************************************************************************)
Init == InitScreen /\ ParserIdle /\ TaskParserIdle /\ NoCall

Next ==
    \/ Connect
    \/ Disconnect
    \/ LoadFails
    \/ \E k \in Range(IssueKeys) : SelectIssue(k)
    \/ ToggleShowOnlyUnrefined
    \/ RefineStory
    \/ UpdateJira
    \/ BreakDown
    \/ ToggleConfirmDelete
    \/ CreateSubtasks
    \/ UpdateJiraWithTasks

Spec == Init /\ [][Next]_vars

InitParse == InitScreen /\ InitParser /\ TaskParserIdle /\ NoCall

NextParse == ParseReply

SpecParse == InitParse /\ [][NextParse]_vars

InitTasks == InitScreen /\ ParserIdle /\ InitTaskParser /\ NoCall

NextTasks == ParseTasks

SpecTasks == InitTasks /\ [][NextTasks]_vars

InitWrite == InitScreen /\ ParserIdle /\ TaskParserIdle /\ InitWriteFields

NextWrite == WriteFields

SpecWrite == InitWrite /\ [][NextWrite]_vars

InitCreate == InitScreen /\ ParserIdle /\ TaskParserIdle /\ InitCreateCall

NextCreate == CreateCall

SpecCreate == InitCreate /\ [][NextCreate]_vars

InitSplit == InitScreen /\ ParserIdle /\ TaskParserIdle /\ InitSplitCall

NextSplit == SplitCall

SpecSplit == InitSplit /\ [][NextSplit]_vars

(***************************************************************************)
(* Properties of the screen, under Spec.                                   *)
(***************************************************************************)
CallsWhere(log, Test(_)) == SelectSeq(log, Test)

IsUpdate(c) == c.op = "update"

IsDelete(c) == c.op = "delete_issue"

\* the first call of every create_jira_subtask: one per create attempt
IsCreateAttempt(c) == c.by = "create_jira_subtask" /\ c.op = "issue"

IsByCreate(c) == c.by = "create_jira_subtask"

Keys(log) == [i \in 1..Len(log) |-> log[i].key]

Texts(log) == [i \in 1..Len(log) |-> log[i].text]

IsPrefix(a, b) == Len(a) <= Len(b) /\ SubSeq(b, 1, Len(a)) = a

\* the positions of the log at which a call of create_jira_subtask stands
CreatePositions(log) == {i \in DOMAIN log : IsByCreate(log[i])}

\* C1: every update written to an issue uses the result of a refinement made
\* while that issue was selected: the updated issue is the one the stored
\* result was made for, the title and the description written are put together
\* from the stored summary and criteria, and the Update button is offered only
\* while the stored result was made for the selected issue.
C1_UpdateUsesResultOfSelectedIssue ==
    /\ \A i \in DOMAIN calls :
          IsUpdate(calls[i])
              => /\ calls[i].key = refined_for
                 /\ calls[i].ok
                      => /\ tracker[calls[i].key].summary
                               = Slice(last_refined_summary, 0, TitleLimit)
                         /\ Contains(tracker[calls[i].key].description,
                                     RefinedStoryMarker \o "  " \o last_refined_summary)
    /\ (Ready /\ ResultPresent) => refined_for = selected

\* PRJ-2 has just been updated, after PRJ-1 was refined and updated too
C1_Witness ==
    /\ \E i \in DOMAIN calls :
          IsUpdate(calls[i]) /\ calls[i].ok /\ calls[i].key = "PRJ-2"
    /\ Contains(tracker["PRJ-1"].description, RefinedStoryMarker)
    /\ Contains(tracker["PRJ-2"].description, RefinedStoryMarker)

\* C2: the task lines created as sub-tasks under an issue, or written into its
\* description by "Update Jira with Tasks", come from a breakdown requested
\* while that issue was selected.
C2_TasksUsedWereMadeForTheIssue ==
    \A i \in DOMAIN calls :
        (calls[i].op = "create_issue"
            \/ (IsUpdate(calls[i]) /\ calls[i].by = "update_jira_tasks_btn"))
        => calls[i].key = tasks_for

\* C3: in a run that replaces the sub-tasks of the selected issue, a delete of
\* every sub-task the issue had stands before the first call made to create
\* one, and a failed delete is followed by the deletes of the remaining keys
\* and by the first create attempt.
C3_DeletesBeforeCreates ==
    [][LET existing == tracker[selected].subtasks
           log      == calls'
       IN  /\ \A j \in CreatePositions(log) :
                 \A k \in Range(existing) :
                    \E i \in 1..(j - 1) : IsDelete(log[i]) /\ log[i].key = k
           /\ \A i \in DOMAIN log :
                 (IsDelete(log[i]) /\ ~log[i].ok)
                    => /\ Keys(CallsWhere(log, IsDelete)) = existing
                       /\ \E j \in CreatePositions(log) : j > i]_vars

\* a run in which the delete of SUB-1 failed, SUB-2 was deleted and both task
\* lines were created
C3_Witness ==
    /\ \E i, j \in DOMAIN calls :
          /\ i < j
          /\ IsDelete(calls[i]) /\ calls[i].key = "SUB-1" /\ ~calls[i].ok
          /\ IsDelete(calls[j]) /\ calls[j].key = "SUB-2" /\ calls[j].ok
    /\ Len(CallsWhere(calls, IsCreateAttempt)) = 2
    /\ tracker[selected].subtasks = <<"SUB-1", SubtaskKey(3), SubtaskKey(4)>>

\* the run with the box checked got as far as its first tracker call
ReplacementRan(log) == \E i \in DOMAIN log : log[i].by = "get_subtask_issue_type"

\* the run read the sub-tasks of the parent
ListedSubtasks(log) ==
    \E i \in DOMAIN log :
        log[i].by = "delete_existing_subtasks" /\ log[i].op = "issue" /\ log[i].ok

\* C4, as stated: a replacement attempts a delete for every existing sub-task
\* key and one create per stored task line, in order.
C4_DeletesAllCreatesAll ==
    [][ReplacementRan(calls')
          => /\ Keys(CallsWhere(calls', IsDelete)) = tracker[selected].subtasks
             /\ Texts(CallsWhere(calls', IsCreateAttempt)) = last_task_breakdown_lines]_vars

\* C4, amended: a replacement that has resolved the sub-task type and read the
\* parent attempts a delete for every existing sub-task key, once each and in
\* order, whether or not a delete fails; it then attempts the creates in the
\* order of the stored task lines and stops at the first create attempt that
\* fails, so the attempts are a prefix of the task lines, and all of them when
\* no attempt fails.  A replacement that fails before that deletes and creates
\* nothing.
C4_DeletesAllCreatesUntilFailure ==
    [][ReplacementRan(calls')
          => LET deletes  == CallsWhere(calls', IsDelete)
                 attempts == CallsWhere(calls', IsCreateAttempt)
                 creates  == CallsWhere(calls', IsByCreate)
             IN  IF ListedSubtasks(calls')
                 THEN /\ Keys(deletes) = tracker[selected].subtasks
                      /\ IsPrefix(Texts(attempts), last_task_breakdown_lines)
                      /\ \A i \in 1..(Len(creates) - 1) : creates[i].ok
                      /\ (\A i \in DOMAIN creates : creates[i].ok)
                            => Texts(attempts) = last_task_breakdown_lines
                 ELSE deletes = <<>> /\ creates = <<>>]_vars

\* the example: SUB-1 and SUB-2 existed, the delete of SUB-2 failed, and
\* "Task A" and "Task B" were both created
C4_Witness ==
    /\ Keys(CallsWhere(calls, IsDelete)) = <<"SUB-1", "SUB-2">>
    /\ \E i \in DOMAIN calls : IsDelete(calls[i]) /\ ~calls[i].ok
    /\ Texts(CallsWhere(calls, IsCreateAttempt)) = <<"Task A", "Task B">>
    /\ \A i \in DOMAIN calls : IsByCreate(calls[i]) => calls[i].ok

\* C5: an issue whose description was just written back, with or without the
\* tasks, reads as already refined in the issue list: it carries the flag and
\* the "show only unrefined" filter leaves it out.
C5_WrittenIssueReadsAsRefined ==
    \A i \in DOMAIN calls :
        (IsUpdate(calls[i]) /\ calls[i].ok)
            => /\ refined_flag(calls[i].key)
               /\ show_only_unrefined => calls[i].key \notin Range(filtered_issues)

\* C6: no exception leaves a run uncaught, a run in which a call failed shows
\* a message, and no failed call is made again in the same run.
C6_FailuresCaughtAndReported ==
    /\ ~unhandled
    /\ (\E i \in DOMAIN calls : ~calls[i].ok) => errors # <<>>
    /\ \A i, j \in DOMAIN calls : (i < j /\ ~calls[i].ok) => calls[j] # calls[i]

IsRefine(c) == c.by = "refine_form"

\* the calls and the warning that only a handler below the stored result makes
ByResultHandler(c) ==
    c.by \in {"update_jira_btn", "break_down_btn", "update_jira_tasks_btn",
              "get_subtask_issue_type", "delete_existing_subtasks", "create_jira_subtask"}

ConfirmWarning ==
    Message("Please check the confirmation box before replacing sub-tasks!", "")

BySubtaskHandler(c) ==
    c.by \in {"get_subtask_issue_type", "delete_existing_subtasks", "create_jira_subtask"}

SubtasksOf(t) == [k \in DOMAIN t |-> t[k].subtasks]

\* C17: a run that starts with the confirmation box unchecked makes no type
\* lookup, no delete and no create and leaves every sub-task in place; the
\* run that shows the warning of the unchecked box makes no call besides the
\* load of the issue list and shows nothing else.
C17_NoReplacementUnconfirmed ==
    [][/\ ~confirm_delete
             => /\ \A i \in DOMAIN calls' : ~BySubtaskHandler(calls'[i])
                /\ SubtasksOf(tracker') = SubtasksOf(tracker)
                /\ next_key' = next_key
       /\ ConfirmWarning \in Range(errors')
             => /\ ~confirm_delete
                /\ \A i \in DOMAIN calls' : calls'[i].by = "main"
                /\ errors' = <<ConfirmWarning>>
                /\ tracker' = tracker]_vars

\* the button was pressed with the box unchecked for PRJ-1, which has task
\* lines stored and still has its two sub-tasks
C17_Witness ==
    /\ ConfirmWarning \in Range(errors)
    /\ ~confirm_delete
    /\ selected = "PRJ-1"
    /\ last_task_breakdown_lines = <<"Task A", "Task B">>
    /\ tracker["PRJ-1"].subtasks = <<"SUB-1", "SUB-2">>

IsTypeLookup(c) == c.by = "get_subtask_issue_type"

IsDeleteOrCreate(c) == c.by \in {"delete_existing_subtasks", "create_jira_subtask"}

CreateFailed == Message("Failed to create sub-tasks", "")

\* C18: in a replacement the type lookup stands before every call of the
\* delete and of the create; when the lookup fails or finds no sub-task type
\* the run shows the error, makes no call of the delete or the create, and the
\* sub-tasks of every issue are as before.
C18_TypeResolvedBeforeDeletes ==
    [][ReplacementRan(calls')
          => LET p == CHOOSE i \in DOMAIN calls' : IsTypeLookup(calls'[i])
             IN  /\ \A i \in DOMAIN calls' : IsDeleteOrCreate(calls'[i]) => p < i
                 /\ (~calls'[p].ok \/ calls'[p].text = "")
                       => /\ \A i \in DOMAIN calls' : ~IsDeleteOrCreate(calls'[i])
                          /\ CreateFailed \in Range(errors')
                          /\ tracker' = tracker
                          /\ next_key' = next_key]_vars

\* a replacement for PRJ-1 in a project without a sub-task type: the lookup
\* returned, found nothing, and SUB-1 and SUB-2 are still there
C18_Witness ==
    /\ \E i \in DOMAIN calls :
          IsTypeLookup(calls[i]) /\ calls[i].ok /\ calls[i].text = ""
    /\ CreateFailed \in Range(errors)
    /\ confirm_delete
    /\ selected = "PRJ-1"
    /\ tracker["PRJ-1"].subtasks = <<"SUB-1", "SUB-2">>

(***************************************************************************)
(* Properties of parse_refined_output, under SpecParse.                    *)
(***************************************************************************)
TrimAll(lines) == [i \in 1..Len(lines) |-> Strip(lines[i])]

NoMarkerLine(text) ==
    \A line \in Range(SplitLines(text)) :
        ~Contains(line, RefinedStoryMarker) /\ ~Contains(line, CriteriaMarker)

\* C7: a reply none of whose lines contains "**Refined User Story:**" or
\* "**Acceptance Criteria:**" (the empty reply included) parses to two empty
\* strings.
C7_NoMarkersParseToEmpty ==
    (reply_parsed.done /\ NoMarkerLine(reply_text))
        => (reply_parsed.summary = "" /\ reply_parsed.criteria = "")

\* a parsed reply without markers that holds text and a separator line
C7_Witness ==
    /\ reply_parsed.done
    /\ NoMarkerLine(reply_text)
    /\ Contains(reply_text, "As a  user")
    /\ Contains(reply_text, Separator)

\* C8, as stated: for a reply in the prompt's format the summary is the
\* enclosed summary lines with all whitespace normalized to single spaces, and
\* the lines of the criteria block are exactly the enclosed criteria lines,
\* each trimmed.
C8_EnclosedTextRecoveredExactly ==
    (reply_parsed.done /\ reply_shape.well_formed)
        => /\ reply_parsed.summary = Join(Words(Join(reply_shape.summary_lines, " ")), " ")
           /\ SplitLines(reply_parsed.criteria) = TrimAll(reply_shape.criteria_lines)

\* C8, amended: for a reply in the prompt's format the summary is the
\* enclosed summary lines, each trimmed, joined by single spaces, and the
\* criteria block is the enclosed criteria lines, each trimmed, joined by line
\* breaks in their order; each result then loses its leading and trailing
\* whitespace and nothing else (spaces inside a line and blank lines between
\* two lines stay).
C8_EnclosedTextRecoveredTrimmed ==
    (reply_parsed.done /\ reply_shape.well_formed)
        => /\ reply_parsed.summary
                = Strip(Join(TrimAll(reply_shape.summary_lines), " "))
           /\ reply_parsed.criteria
                = Strip(Join(TrimAll(reply_shape.criteria_lines), "\n"))

\* a parsed reply in the prompt's format with two summary lines and two
\* criteria lines, padded with spaces
C8_Witness ==
    /\ reply_parsed.done
    /\ reply_shape.well_formed
    /\ reply_shape.summary_lines = <<" I want x ", "As a  user">>
    /\ reply_shape.criteria_lines = <<"- c1 ", " I want x ">>
    /\ reply_parsed.summary = "I want x As a  user"
    /\ reply_parsed.criteria = "- c1\nI want x"

\* C9: the criteria block parsed from a reply, split into the lines the
\* written description turns into bullets, holds no blank line and no line
\* equal to "---".
C9_NoBlankOrSeparatorLine ==
    reply_parsed.done
        => \A line \in Range(SplitLines(reply_parsed.criteria)) :
              Strip(line) # "" /\ line # Separator

HasStoryMarker(line) == Contains(line, "**Refined User Story:**")

HasCriteriaMarker(line) == Contains(line, "**Acceptance Criteria:**")

IsSeparatorLine(line) == Strip(line) = "---"

SwitchesMode(line) ==
    HasStoryMarker(line) \/ HasCriteriaMarker(line) \/ IsSeparatorLine(line)

\* the last mode-switching line before line i, 0 when there is none
LastSwitch(lines, i) ==
    LET before == {j \in 1..(i - 1) : SwitchesMode(lines[j])}
    IN  IF before = {} THEN 0 ELSE CHOOSE j \in before : \A k \in before : k <= j

\* the lines that are no mode-switching line and whose last mode-switching
\* line passes the test, trimmed, in order
LinesAfter(lines, Test(_)) ==
    LET Collected(i) ==
            /\ ~SwitchesMode(lines[i])
            /\ LastSwitch(lines, i) # 0
            /\ Test(lines[LastSwitch(lines, i)])
        picked == SelectSeq([i \in 1..Len(lines) |-> i], Collected)
    IN  [k \in 1..Len(picked) |-> Strip(lines[picked[k]])]

OnlyCriteriaMarker(line) == HasCriteriaMarker(line) /\ ~HasStoryMarker(line)

\* the two accumulators at the end of the loop
Accumulated == ParseLines(ParseStart, SplitLines(reply_text))

\* C15, as stated: a line is collected into the summary (the criteria) iff it
\* is no marker line and no "---" line and the last mode-switching line
\* before it contains "**Refined User Story:**" ("**Acceptance Criteria:**").
C15_CollectedAfterItsMarker ==
    reply_parsed.done
        => LET lines == SplitLines(reply_text)
           IN  /\ Accumulated.summary_lines = LinesAfter(lines, HasStoryMarker)
               /\ Accumulated.criteria_lines = LinesAfter(lines, HasCriteriaMarker)

\* C15, amended: the same, a line that contains both markers counting as a
\* "**Refined User Story:**" line only; the outputs are the collected lines,
\* trimmed and joined, so a line seen in mode none, a marker line and a "---"
\* line are in neither.
C15_CollectedAfterItsMarkerStoryFirst ==
    reply_parsed.done
        => LET lines    == SplitLines(reply_text)
               summary  == LinesAfter(lines, HasStoryMarker)
               criteria == LinesAfter(lines, OnlyCriteriaMarker)
           IN  /\ Accumulated.summary_lines = summary
               /\ Accumulated.criteria_lines = criteria
               /\ reply_parsed.summary = Strip(Join(summary, " "))
               /\ reply_parsed.criteria = Strip(Join(criteria, "\n"))

\* a reply with a criteria marker line, a criteria line, a line with both
\* markers and a line after it, which goes to the summary
C15_Witness ==
    /\ reply_parsed.done
    /\ reply_text = "x **Acceptance Criteria:** y\n - c1 \n"
                    \o "**Acceptance Criteria:** **Refined User Story:**\nAs a  user"
    /\ reply_parsed.summary = "As a  user"
    /\ reply_parsed.criteria = "- c1"

(***************************************************************************)
(* Properties of parse_task_lines, under SpecTasks.                        *)
(***************************************************************************)
C10_Cleaned(line) == Strip(LStripChars(Strip(line), {"-", Bullet}))

C10_Kept(clean) ==
    /\ clean # ""
    /\ ~EndsWith(clean, ":")
    /\ ~(StartsWith(clean, "**") /\ EndsWith(clean, "**"))
    /\ ~(Len(Words(clean)) <= 4 /\ clean = Upper(clean))

Bulleted(lines, bullet) == [i \in 1..Len(lines) |-> bullet \o lines[i]]

\* block stands in lines right after a line that reads heading
StandsUnder(lines, heading, block) ==
    \E p \in DOMAIN lines :
        /\ Strip(lines[p]) = heading
        /\ p + Len(block) <= Len(lines)
        /\ SubSeq(lines, p + 1, p + Len(block)) = block

LastLine(lines) == IF lines = <<>> THEN "" ELSE lines[Len(lines)]

\* C11: the description written starts with "**Refined User Story:**  " and
\* the summary, holds every criteria line as a "- " bullet of its own, in the
\* original order, under the line "**Acceptance Criteria:**", and its last
\* line is "_Refined by AI agent_"; with tasks, every task is a "- [ ] " line
\* under "**Implementation Tasks:**" and the last line is
\* "_Refined and broken down by AI agent_".
C11_DescriptionLaidOut ==
    call_result.done
        => LET plain == SplitLines(call_result.description)
               tasks == SplitLines(call_result.description_with_tasks)
               first == "**Refined User Story:**  " \o call_args.summary
               crits == Bulleted(call_args.criteria_lines, "- ")
           IN  /\ StartsWith(call_result.description, first \o "\n")
               /\ StandsUnder(plain, "**Acceptance Criteria:**", crits)
               /\ LastLine(plain) = "_Refined by AI agent_"
               /\ StartsWith(call_result.description_with_tasks, first \o "\n")
               /\ StandsUnder(tasks, "**Acceptance Criteria:**", crits)
               /\ StandsUnder(tasks, "**Implementation Tasks:**",
                              Bulleted(call_args.tasks, "- [ ] "))
               /\ LastLine(tasks) = "_Refined and broken down by AI agent_"

\* a description written from three criteria lines, a blank one between two,
\* and two tasks
C11_Witness ==
    /\ call_result.done
    /\ call_args.criteria_lines = <<"- c1", "", "c  2">>
    /\ call_args.tasks = <<"Task A", "Add  x">>
    /\ Contains(call_result.description, "\n- - c1\n- \n- c  2\n")
    /\ Contains(call_result.description_with_tasks, "\n- [ ] Task A\n- [ ] Add  x\n")

\* C12: the title written is the first 255 characters of the summary, the
\* whole summary when it is shorter, and both descriptions hold the summary
\* whole.
C12_TitleCutDescriptionWhole ==
    call_result.done
        => /\ StartsWith(call_args.summary, call_result.summary)
           /\ Len(call_result.summary)
                = (IF Len(call_args.summary) < 255 THEN Len(call_args.summary) ELSE 255)
           /\ Contains(call_result.description, call_args.summary)
           /\ Contains(call_result.description_with_tasks, call_args.summary)

\* a summary of 300 characters, written as a title of 255
C12_Witness ==
    /\ call_result.done
    /\ Len(call_args.summary) = 300
    /\ Len(call_result.summary) = 255
    /\ Contains(call_result.description, call_args.summary)

(***************************************************************************)
(* Properties of create_jira_subtask, under SpecCreate.                    *)
(***************************************************************************)
IsCreateIssue(c) == c.op = "create_issue"

\* C13: called for a parent that is itself a sub-task, create_jira_subtask
\* raises and makes no create call; a create call is only ever made for a
\* parent that is not a sub-task, and it is made whenever such a parent was
\* read.
C13_NoSubtaskUnderSubtask ==
    call_result.done
        => LET creates == CallsWhere(call_result.calls, IsCreateIssue)
               under   == call_args.parent \in {"SUB-1", "SUB-2"}
           IN  /\ under => (call_result.raised /\ creates = <<>>)
               /\ \A i \in DOMAIN creates : creates[i].key \in {"PRJ-1", "PRJ-2"}
               /\ (~under /\ call_args.read_ok)
                     => (Len(creates) = 1 /\ creates[1].key = call_args.parent)

\* the call for the parent SUB-1, read without failure, has raised
C13_Witness ==
    /\ call_result.done
    /\ call_args.parent = "SUB-1"
    /\ call_args.read_ok /\ call_args.create_ok
    /\ call_result.raised
    /\ Len(call_result.calls) = 1

(***************************************************************************)
(* Properties of the suggestions split, under SpecSplit.                   *)
(***************************************************************************)
OccursAt(s, sub, i) == i + Len(sub) - 1 <= Len(s) /\ SubSeq(s, i, i + Len(sub) - 1) = sub

\* C14: when "**Suggestions for Improvement:**" occurs in the block, the
\* criteria are the text before its first occurrence and the suggestions all
\* the text after it, later occurrences included; when it does not occur, the
\* criteria are the whole block, there are no suggestions, and the split of
\* the result gives the same block again, without suggestions.
C14_SplitAtFirstMarker ==
    call_result.done
        => LET block  == call_args.refined_criteria
               marker == "**Suggestions for Improvement:**"
               once   == call_result.once
               twice  == call_result.twice
           IN  IF \E i \in 1..Len(block) : OccursAt(block, marker, i)
               THEN /\ once.present
                    /\ once.criteria_part \o marker \o once.suggestions_part = block
                    /\ \A i \in 1..Len(once.criteria_part) : ~OccursAt(block, marker, i)
               ELSE /\ ~once.present
                    /\ once.criteria_part = block
                    /\ ~twice.present
                    /\ twice.criteria_part = block

\* a block in which the marker occurs twice: the second stays in the suggestions
C14_Witness ==
    /\ call_result.done
    /\ call_args.refined_criteria
         = "- c1\n**Suggestions for Improvement:**\n**Suggestions for Improvement:**"
    /\ call_result.once.criteria_part = "- c1\n"
    /\ call_result.once.suggestions_part = "\n**Suggestions for Improvement:**"

====
